---- MODULE Spec2Model ----
(***************************************************************************)
(* The shopping cart engine of the snack shop front end (class             *)
(* ShoppingCart): its line items, the global discount rate, the            *)
(* localStorage envelope it persists, and the storage events that carry a  *)
(* write of one tab to the other tabs.                                     *)
(*                                                                         *)
(* Numbers.  Prices are whole tenths of a currency unit (10.00 is 100).    *)
(* A discount rate r of the code (0.10, 0.15, the tax rate 0.1) is the     *)
(* integer 100 * r.  The amounts getTotals returns are exact integers in   *)
(* units of 10^-6 of a currency unit (one tenth is Unit of them), so that  *)
(* every product of the algorithm is exact; the rounding of IEEE doubles   *)
(* is not modelled.                                                        *)
(*                                                                         *)
(* JavaScript values.  `this.items` is an array in the intended runs, but  *)
(* the code can also assign it the parsed envelope object.  A value is     *)
(* therefore [arr, wraps]: the array arr wrapped in Len(wraps) envelope    *)
(* objects {items: ..., discountRate: wraps[i]}, innermost first.  An      *)
(* array is a value with wraps = << >>.                                    *)
(*                                                                         *)
(* The page.  Each tab shows one document: whether it has the cart         *)
(* elements, the quantity inputs render() has put into it with the timer   *)
(* of their debounced handler, and how the script that constructs          *)
(* window.Cart has run on it.  Time is not measured: a pending timer may   *)
(* fire at any later step.                                                 *)
(***************************************************************************)
EXTENDS Integers, Sequences, FiniteSets

VARIABLES
    items,          \* tab -> value of this.items
    discountRate,   \* tab -> this.discountRate (percent)
    storage,        \* localStorage under STORAGE_KEY
    pending,        \* tab -> storage events queued for the tab
    view,           \* tab -> the document of the tab: cart elements, inputs, engines
    last            \* the last call: operation, arguments, outcome, state before

vars == <<items, discountRate, storage, pending, view, last>>

-----------------------------------------------------------------------------
(* Bounds of the model *)

MaxQty == 2         \* largest quantity a line item or an argument takes
MaxPending == 1     \* storage events queued for one tab
MaxNest == 2        \* envelope objects around this.items when it is saved
MaxItems == 3       \* line items in this.items
MaxDetached == 1    \* pending timers of inputs that a render takes out of the document

MinQty == 0 - 1     \* smallest quantity argument (negative arguments are accepted)
Quantities == MinQty..MaxQty

-----------------------------------------------------------------------------
(* JavaScript values *)

Undefined == "<undefined>"
NoId == [t |-> "undefined", v |-> ""]
Str(s) == [t |-> "string", v |-> s]
Num(s) == [t |-> "number", v |-> s]

\* String(x): the string form of an id; a number n becomes the string "n".
StringOf(id) == [t |-> "string", v |-> id.v]

\* !x for an id: undefined, "" and 0 are falsy.
Falsy(id) == id.t = "undefined" \/ (id.t = "string" /\ id.v = "") \/ (id.t = "number" /\ id.v = "0")

\* x === y: same type and same value.
StrictEq(x, y) == x.t = y.t /\ x.v = y.v

Arr(seq) == [arr |-> seq, wraps |-> << >>]
IsArray(val) == val.wraps = << >>

Front(s) == SubSeq(s, 1, Len(s) - 1)
LastOf(s) == s[Len(s)]

\* x || 0
OrZero(x) == IF x = 0 THEN 0 ELSE x

-----------------------------------------------------------------------------
(* The catalogue: the product records the presentation code hands to addItem *)

ProductA == [id |-> Str("a"), name |-> "Chips", price |-> 100, discount |-> 10,
             imageUrl |-> "chips.png", category |-> "Salty", has |-> {"imageUrl", "category", "discount"}]
ProductB == [id |-> Str("b"), name |-> "Soda", price |-> 25, discount |-> 0,
             imageUrl |-> "", category |-> "", has |-> {}]
ProductNoId == [id |-> NoId, name |-> "Ghost", price |-> 10, discount |-> 0,
             imageUrl |-> "", category |-> "", has |-> {}]

Products == {ProductA, ProductB, ProductNoId}
ProductIds == {Str("a"), Str("b"), Str("zz")}

\* product.f || dflt for an optional field f
FieldOr(product, f, dflt) == IF f \in product.has /\ product[f] # dflt THEN product[f] ELSE dflt

\* The object literal addItem pushes.
NewLineItem(product, quantity) ==
    [id |-> StringOf(product.id),
     name |-> product.name,
     price |-> product.price,
     quantity |-> quantity,
     imageUrl |-> FieldOr(product, "imageUrl", ""),
     category |-> FieldOr(product, "category", ""),
     discount |-> FieldOr(product, "discount", 0)]

-----------------------------------------------------------------------------
(* Array helpers *)

RECURSIVE FilterOutInverted(_, _)
\* FilterOut with the test inverted: keeps the matching items
FilterOutInverted(seq, productId) ==
    IF seq = << >> THEN << >>
    ELSE IF StrictEq(Head(seq).id, productId)
         THEN <<Head(seq)>> \o FilterOutInverted(Tail(seq), productId)
         ELSE FilterOutInverted(Tail(seq), productId)

RECURSIVE FilterOut(_, _)
\* items.filter(item => item.id !== productId)
FilterOut(seq, productId) ==
    IF seq = << >> THEN << >>
    ELSE IF ~StrictEq(Head(seq).id, productId)
         THEN <<Head(seq)>> \o FilterOut(Tail(seq), productId)
         ELSE FilterOut(Tail(seq), productId)

\* items.find(item => item.id === productId): index of the first match, 0 if none
FindIndex(seq, productId) ==
    IF \E i \in 1..Len(seq) : StrictEq(seq[i].id, productId)
    THEN CHOOSE i \in 1..Len(seq) :
            /\ StrictEq(seq[i].id, productId)
            /\ \A j \in 1..(i - 1) : ~StrictEq(seq[j].id, productId)
    ELSE 0

RECURSIVE SumQuantity(_)
\* items.reduce((sum, item) => sum + item.quantity, 0)
SumQuantity(seq) ==
    IF seq = << >> THEN 0 ELSE Head(seq).quantity + SumQuantity(Tail(seq))

-----------------------------------------------------------------------------
(* JSON: what JSON.stringify writes and JSON.parse reads back *)

ItemKeys == {"id", "name", "price", "quantity", "imageUrl", "category", "discount"}

\* JSON.stringify of a line item: a key whose value is undefined is left out.
StringifyItem(item) ==
    [keys |-> {k \in ItemKeys : ~(k = "name" /\ item.name = Undefined)},
     id |-> item.id.v, idIsString |-> item.id.t = "string",
     name |-> IF item.name = Undefined THEN "" ELSE item.name,
     price |-> item.price, quantity |-> item.quantity,
     imageUrl |-> item.imageUrl, category |-> item.category, discount |-> item.discount]

\* JSON.parse of a line item: reading a key that is absent gives undefined.
ParseItem(doc) ==
    [id |-> IF doc.idIsString THEN Str(doc.id) ELSE Num(doc.id),
     name |-> IF "name" \in doc.keys THEN doc.name ELSE Undefined,
     price |-> doc.price, quantity |-> doc.quantity,
     imageUrl |-> doc.imageUrl, category |-> doc.category, discount |-> doc.discount]

StringifyArr(seq) == [i \in 1..Len(seq) |-> StringifyItem(seq[i])]
ParseArr(docs) == [i \in 1..Len(docs) |-> ParseItem(docs[i])]

\* Contents of localStorage under the key: nothing, text that does not parse,
\* JSON that is neither an array nor an object with items, or the JSON text of
\* a value (an array, or an array in envelopes).
Absent == [kind |-> "absent", arr |-> << >>, wraps |-> << >>]
Garbage == [kind |-> "garbage", arr |-> << >>, wraps |-> << >>]
OtherJson == [kind |-> "other", arr |-> << >>, wraps |-> << >>]
Json(docs, wraps) == [kind |-> "json", arr |-> docs, wraps |-> wraps]

\* StringifyPayload writing the bare value, the legacy form
StringifyPayloadLegacy(val, rate) == Json(StringifyArr(val.arr), val.wraps)

\* JSON.stringify({ items: this.items, discountRate: this.discountRate })
StringifyPayload(val, rate) == Json(StringifyArr(val.arr), Append(val.wraps, rate))

-----------------------------------------------------------------------------
(* Persistence *)

\* loadFromStorage(): [] when the key is absent, the text does not parse, or
\* the JSON is neither an array nor an object with items; otherwise the
\* parsed value itself, the envelope object included.
LoadFromStorage(st) ==
    IF st.kind = "json" THEN [arr |-> ParseArr(st.arr), wraps |-> st.wraps]
    ELSE Arr(<< >>)

\* The constructor's hydration: a stored array becomes the items; of a stored
\* envelope, its items and its discountRate (or 0) are taken.
HydratedItems(st) ==
    LET stored == LoadFromStorage(st)
    IN  IF IsArray(stored) THEN stored
        ELSE [arr |-> stored.arr, wraps |-> Front(stored.wraps)]

\* HydratedRate without the read of stored.discountRate
HydratedRateDropped(st) == 0

HydratedRate(st) ==
    LET stored == LoadFromStorage(st)
    IN  IF IsArray(stored) THEN 0 ELSE OrZero(LastOf(stored.wraps))

\* saveToStorage(): what localStorage holds afterwards; a failing setItem
\* (writable = FALSE) is caught and leaves the old text.
SavedStorage(val, rate, writable) ==
    IF writable THEN StringifyPayload(val, rate) ELSE storage

\* A write that changes the text queues a storage event for every other tab.
Notified(t, newStorage) ==
    [u \in DOMAIN pending |->
        IF u # t /\ newStorage # storage THEN pending[u] + 1 ELSE pending[u]]

CanNotify(t) == \A u \in DOMAIN pending : u # t => pending[u] < MaxPending

-----------------------------------------------------------------------------
(* Totals *)

TaxRate == 10           \* this.taxRate = 0.1
Unit == 1000 * 100      \* a price of 1, in the units of the amounts of getTotals

RECURSIVE Accumulate(_)
\* the forEach of getTotals: subtotal and the per-item discount total
Accumulate(seq) ==
    IF seq = << >> THEN [subtotal |-> 0, discountAmount |-> 0]
    ELSE LET item == Head(seq)
             rest == Accumulate(Tail(seq))
             itemPrice == item.price
             itemDiscount == OrZero(item.discount)
             itemDiscountAmount == itemPrice * itemDiscount * item.quantity * (Unit \div 100)
         IN  [subtotal |-> rest.subtotal + itemPrice * item.quantity * Unit,
              discountAmount |-> rest.discountAmount + itemDiscountAmount]

Max(a, b) == IF a >= b THEN a ELSE b

\* GetTotals taking the tax on the discounted subtotal as it is, without Math.max
GetTotalsUnclamped(seq, rate) ==
    LET acc == Accumulate(seq)
        subtotal == acc.subtotal
        discountAmount == acc.discountAmount
        afterItemDiscount == subtotal - discountAmount
        globalDiscountAmount == (afterItemDiscount * OrZero(rate)) \div 100
        totalDiscount == discountAmount + globalDiscountAmount
        discountedSubtotal == subtotal - totalDiscount
        tax == (discountedSubtotal * TaxRate) \div 100
        total == discountedSubtotal + tax
    IN  [subtotal |-> subtotal,
         discountAmount |-> totalDiscount,
         discountedSubtotal |-> discountedSubtotal,
         tax |-> tax,
         total |-> total,
         itemCount |-> SumQuantity(seq)]

\* GetTotals with the global discount taken on the raw subtotal
GetTotalsOnSubtotal(seq, rate) ==
    LET acc == Accumulate(seq)
        subtotal == acc.subtotal
        discountAmount == acc.discountAmount
        globalDiscountAmount == (subtotal * OrZero(rate)) \div 100
        totalDiscount == discountAmount + globalDiscountAmount
        discountedSubtotal == subtotal - totalDiscount
        tax == (Max(0, discountedSubtotal) * TaxRate) \div 100
        total == discountedSubtotal + tax
    IN  [subtotal |-> subtotal,
         discountAmount |-> totalDiscount,
         discountedSubtotal |-> discountedSubtotal,
         tax |-> tax,
         total |-> total,
         itemCount |-> SumQuantity(seq)]

GetTotals(seq, rate) ==
    LET acc == Accumulate(seq)
        subtotal == acc.subtotal
        discountAmount == acc.discountAmount
        afterItemDiscount == subtotal - discountAmount
        globalDiscountAmount == (afterItemDiscount * OrZero(rate)) \div 100
        totalDiscount == discountAmount + globalDiscountAmount
        discountedSubtotal == subtotal - totalDiscount
        tax == (Max(0, discountedSubtotal) * TaxRate) \div 100
        total == discountedSubtotal + tax
    IN  [subtotal |-> subtotal,
         discountAmount |-> totalDiscount,
         discountedSubtotal |-> discountedSubtotal,
         tax |-> tax,
         total |-> total,
         itemCount |-> SumQuantity(seq)]

NoTotals == [subtotal |-> 0, discountAmount |-> 0, discountedSubtotal |-> 0,
             tax |-> 0, total |-> 0, itemCount |-> 0]

\* The entry of getCheckoutData for one line item
CheckoutEntry(item) ==
    [id |-> item.id, name |-> item.name, price |-> item.price,
     quantity |-> item.quantity, discount |-> OrZero(item.discount)]

\* CheckoutData reporting the discounted subtotal as the total
CheckoutDataBeforeTax(seq, rate) ==
    LET totals == GetTotals(seq, rate)
    IN  [items |-> [i \in 1..Len(seq) |-> CheckoutEntry(seq[i])],
         subtotal |-> totals.subtotal,
         discount |-> totals.discountAmount,
         tax |-> totals.tax,
         total |-> totals.discountedSubtotal,
         itemCount |-> totals.itemCount]

\* The object getCheckoutData returns
CheckoutData(seq, rate) ==
    LET totals == GetTotals(seq, rate)
    IN  [items |-> [i \in 1..Len(seq) |-> CheckoutEntry(seq[i])],
         subtotal |-> totals.subtotal,
         discount |-> totals.discountAmount,
         tax |-> totals.tax,
         total |-> totals.total,
         itemCount |-> totals.itemCount]

NoCheckout == [items |-> << >>, subtotal |-> 0, discount |-> 0, tax |-> 0,
               total |-> 0, itemCount |-> 0]

-----------------------------------------------------------------------------
(* Discount codes: a string is its sequence of characters *)

LowerCase == <<"a", "e", "s", "v">>
UpperCase == <<"A", "E", "S", "V">>

\* c.toUpperCase() for one character
UpperChar(c) ==
    IF \E i \in 1..Len(LowerCase) : LowerCase[i] = c
    THEN UpperCase[CHOOSE i \in 1..Len(LowerCase) : LowerCase[i] = c]
    ELSE c

ToUpperCase(chars) == [i \in 1..Len(chars) |-> UpperChar(chars[i])]

RECURSIVE TrimStart(_)
TrimStart(chars) ==
    IF chars # << >> /\ Head(chars) = " " THEN TrimStart(Tail(chars)) ELSE chars

RECURSIVE TrimEnd(_)
TrimEnd(chars) ==
    IF chars # << >> /\ LastOf(chars) = " " THEN TrimEnd(Front(chars)) ELSE chars

Trim(chars) == TrimEnd(TrimStart(chars))

SAVE10 == <<"S", "A", "V", "E", "1", "0">>
SAVE15 == <<"S", "A", "V", "E", "1", "5">>

\* codes[normalized]: the rate of a code of the table, 0 (undefined) otherwise
CodeRate(normalized) ==
    IF normalized = SAVE10 THEN 10
    ELSE IF normalized = SAVE15 THEN 15
    ELSE 0

StringCode(chars) == [isString |-> TRUE, chars |-> chars]
NonStringCode == [isString |-> FALSE, chars |-> << >>]

\* The codes tried: SAVE10, " save15 ", an unknown code, blanks, "", a non-string
Codes ==
    {StringCode(SAVE10),
     StringCode(<<" ", "s", "a", "v", "e", "1", "5", " ">>),
     StringCode(<<"S", "A", "V", "E", "2", "0">>),
     StringCode(<<" ">>),
     StringCode(<< >>),
     NonStringCode}

-----------------------------------------------------------------------------
(* Numbers as text: what is typed into a quantity input *)

Digits == <<"0", "1", "2", "3", "4", "5", "6", "7", "8", "9">>

IsDigit(c) == \E i \in 1..Len(Digits) : Digits[i] = c
DigitValue(c) == (CHOOSE i \in 1..Len(Digits) : Digits[i] = c) - 1

RECURSIVE LeadingDigits(_)
\* the longest prefix of chars made of digits
LeadingDigits(chars) ==
    IF chars # << >> /\ IsDigit(Head(chars))
    THEN <<Head(chars)>> \o LeadingDigits(Tail(chars))
    ELSE << >>

RECURSIVE DigitsValue(_)
DigitsValue(digits) ==
    IF digits = << >> THEN 0
    ELSE DigitsValue(Front(digits)) * 10 + DigitValue(LastOf(digits))

NaN == [nan |-> TRUE, n |-> 0]

\* parseInt(text): blanks, a sign, then the digits up to the first character
\* that is not one; NaN when there is no digit there.
ParseInt(chars) ==
    LET s == TrimStart(chars)
        signed == s # << >> /\ Head(s) \in {"-", "+"}
        digits == LeadingDigits(IF signed THEN Tail(s) ELSE s)
    IN  IF digits = << >> THEN NaN
        ELSE [nan |-> FALSE,
              n |-> IF signed /\ Head(s) = "-" THEN 0 - DigitsValue(digits)
                    ELSE DigitsValue(digits)]

\* let v = parseInt(ev.target.value); if (isNaN(v) || v < 1) v = 1;
CommitValue(chars) ==
    LET v == ParseInt(chars)
    IN  IF v.nan \/ v.n < 1 THEN 1 ELSE v.n

\* What is typed into a quantity input: "2.5", "0", ""
Texts == {<<"2", ".", "5">>, <<"0">>, << >>}

-----------------------------------------------------------------------------
(* The document of a tab *)

\* A document whose script has constructed one engine; dom tells whether it
\* has cart-items-list, cart-summary-section and cart-empty-message.
Page(dom) == [dom |-> dom, inputs |-> << >>, engines |-> 1, dcl |-> "fired", second |-> FALSE]

\* The .qty-input render() writes for a line item, with the debounced handler
\* it attaches: no timer is pending. Its value is kept from the first event
\* on: the handler reads it only after one, so the quantity render() wrote
\* into it is never read.
QtyInput(item) ==
    [id |-> StringOf(item.id), value |-> << >>, timers |-> 0, attached |-> TRUE]

\* The inputs a render takes out of the document whose handler has a timer
\* pending: the timer stays and will fire.
Detached(inputs) ==
    LET Waiting(input) == input.timers > 0
        waiting == SelectSeq(inputs, Waiting)
    IN  [i \in 1..Len(waiting) |-> [waiting[i] EXCEPT !.attached = FALSE]]

\* render() on a page for the value val of this.items: "noop" without the
\* cart elements, "throw" when val is not an array (val.map is not a
\* function), "rendered" otherwise.
RenderOutcomeUnguarded(page, val) ==
    IF ~page.dom \/ ~IsArray(val) THEN "throw" ELSE "rendered"

RenderOutcome(page, val) ==
    IF ~page.dom THEN "noop"
    ELSE IF ~IsArray(val) THEN "throw"
    ELSE "rendered"

\* The page after render(): innerHTML is replaced by one input per line item.
Rendered(page, val) ==
    IF RenderOutcome(page, val) # "rendered" THEN page
    ELSE [page EXCEPT !.inputs = Detached(page.inputs)
                                    \o [i \in 1..Len(val.arr) |-> QtyInput(val.arr[i])]]

\* this.render() in a call of tab t that found the page `page`
Render(t, page, val) ==
    /\ RenderOutcome(page, val) = "rendered" => Len(Detached(page.inputs)) <= MaxDetached
    /\ view' = [view EXCEPT ![t] = Rendered(page, val)]

\* debounce without its clearTimeout: every event adds a timer
DebouncedWithoutClear(timers) == timers + 1

\* clearTimeout(t); t = setTimeout(...): the timers of a debounced handler
\* after an event
Debounced(timers) == 1

\* The inputs after a timer of input i has fired; an input outside the
\* document with no timer left is forgotten.
Fired(inputs, i) ==
    LET left == [inputs EXCEPT ![i].timers = inputs[i].timers - 1]
    IN  IF left[i].attached \/ left[i].timers > 0 THEN left
        ELSE SubSeq(left, 1, i - 1) \o SubSeq(left, i + 1, Len(left))

-----------------------------------------------------------------------------
(* The record of a call *)

Snapshot(t) == [items |-> items[t], discountRate |-> discountRate[t], storage |-> storage]

Call(op, t) ==
    [op |-> op, tab |-> t, id |-> NoId, quantity |-> 0, code |-> NonStringCode, input |-> 0, text |-> << >>,
     result |-> "undefined", note |-> "none", saved |-> FALSE,
     totals |-> NoTotals, user |-> "none", ui |-> "none", checkout |-> NoCheckout,
     pre |-> Snapshot(t)]

\* Mutate giving up the assignments when the write fails
MutateAtomic(t, newItems, newRate, writable) ==
    LET newStorage == SavedStorage(newItems, newRate, writable)
    IN  /\ CanNotify(t)
        /\ items' = IF writable THEN [items EXCEPT ![t] = newItems] ELSE items
        /\ discountRate' = IF writable THEN [discountRate EXCEPT ![t] = newRate] ELSE discountRate
        /\ storage' = newStorage
        /\ pending' = Notified(t, newStorage)

\* The state after a call of tab t that assigns this.items and
\* this.discountRate and then calls saveToStorage().
Mutate(t, newItems, newRate, writable) ==
    LET newStorage == SavedStorage(newItems, newRate, writable)
    IN  /\ CanNotify(t)
        /\ items' = [items EXCEPT ![t] = newItems]
        /\ discountRate' = [discountRate EXCEPT ![t] = newRate]
        /\ storage' = newStorage
        /\ pending' = Notified(t, newStorage)

-----------------------------------------------------------------------------
(* Operations of the engine of tab t *)

\* What a call that ends with render() on `page` and the value val returns:
\* `done`, or the TypeError of render() after the save.
Returned(call, page, val, done) ==
    IF RenderOutcome(page, val) = "throw"
    THEN [call EXCEPT !.result = "throw", !.saved = done.saved]
    ELSE done

\* AddItemArr without the lookup of an existing item
AddItemArrAlwaysAppend(seq, product, quantity) ==
    Append(seq, NewLineItem(product, quantity))

\* AddItemArr putting a new line item in front of the others
AddItemArrUnshift(seq, product, quantity) ==
    LET i == FindIndex(seq, product.id)
    IN  IF i > 0
        THEN [seq EXCEPT ![i].quantity = seq[i].quantity + quantity]
        ELSE <<NewLineItem(product, quantity)>> \o seq

\* addItem(product, quantity)
AddItemArr(seq, product, quantity) ==
    LET i == FindIndex(seq, product.id)
    IN  IF i > 0
        THEN [seq EXCEPT ![i].quantity = seq[i].quantity + quantity]
        ELSE Append(seq, NewLineItem(product, quantity))

\* addItem does not call render(): the page keeps what it shows.
AddItem(t, product, quantity, writable) ==
    LET call == [Call("addItem", t) EXCEPT !.id = product.id, !.quantity = quantity]
    IN  IF Falsy(product.id)
        THEN /\ last' = [call EXCEPT !.result = "false", !.note = "error"]
             /\ UNCHANGED <<items, discountRate, storage, pending, view>>
        ELSE IF ~IsArray(items[t])
        THEN /\ last' = [call EXCEPT !.result = "throw"]
             /\ UNCHANGED <<items, discountRate, storage, pending, view>>
        ELSE LET newArr == AddItemArr(items[t].arr, product, quantity)
             IN  /\ Len(newArr) <= MaxItems
                 /\ \A i \in 1..Len(newArr) : newArr[i].quantity \in Quantities
                 /\ Mutate(t, Arr(newArr), discountRate[t], writable)
                 /\ UNCHANGED view
                 /\ last' = [call EXCEPT !.result = "true", !.note = "success", !.saved = writable]

\* removeItem(productId)
RemoveItem(t, productId, writable) ==
    LET call == [Call("removeItem", t) EXCEPT !.id = productId]
        newItems == Arr(FilterOut(items[t].arr, productId))
    IN  IF ~IsArray(items[t])
        THEN /\ last' = [call EXCEPT !.result = "throw"]
             /\ UNCHANGED <<items, discountRate, storage, pending, view>>
        ELSE /\ Mutate(t, newItems, discountRate[t], writable)
             /\ Render(t, view[t], newItems)
             /\ last' = Returned(call, view[t], newItems,
                                 [call EXCEPT !.note = "info", !.saved = writable])

\* RemovesAt with < for <=
RemovesAtNegative(quantity) == quantity < 0

\* the test `quantity <= 0` of updateQuantity
RemovesAt(quantity) == quantity <= 0

\* SetQuantity adding the argument to the stored quantity
SetQuantityDelta(seq, i, quantity) == [seq EXCEPT ![i].quantity = seq[i].quantity + quantity]

\* item.quantity = quantity
SetQuantity(seq, i, quantity) == [seq EXCEPT ![i].quantity = quantity]

\* UpdateQuantityOn creating the line item when no item has the id
UpdateQuantityOnUpserting(t, page, call, productId, quantity, writable) ==
    LET i == FindIndex(items[t].arr, productId)
        created == [id |-> productId, name |-> Undefined, price |-> 0, quantity |-> quantity,
                    imageUrl |-> "", category |-> "", discount |-> 0]
        newItems == IF i = 0 THEN Arr(Append(items[t].arr, created))
                    ELSE IF RemovesAt(quantity) THEN Arr(FilterOut(items[t].arr, productId))
                    ELSE Arr(SetQuantity(items[t].arr, i, quantity))
    IN  IF ~IsArray(items[t])
        THEN /\ last' = [call EXCEPT !.result = "throw"]
             /\ view' = [view EXCEPT ![t] = page]
             /\ UNCHANGED <<items, discountRate, storage, pending>>
        ELSE /\ Len(newItems.arr) <= MaxItems
             /\ \A j \in 1..Len(newItems.arr) : newItems.arr[j].quantity \in Quantities
             /\ Mutate(t, newItems, discountRate[t], writable)
             /\ Render(t, page, newItems)
             /\ last' = Returned(call, page, newItems, [call EXCEPT !.saved = writable])

\* updateQuantity(productId, quantity) as the call `call` of tab t, on the
\* page `page`
UpdateQuantityOn(t, page, call, productId, quantity, writable) ==
    LET i == FindIndex(items[t].arr, productId)
    IN  IF ~IsArray(items[t])
        THEN /\ last' = [call EXCEPT !.result = "throw"]
             /\ view' = [view EXCEPT ![t] = page]
             /\ UNCHANGED <<items, discountRate, storage, pending>>
        ELSE IF i = 0
        THEN /\ last' = call
             /\ view' = [view EXCEPT ![t] = page]
             /\ UNCHANGED <<items, discountRate, storage, pending>>
        ELSE IF RemovesAt(quantity)
        THEN LET newItems == Arr(FilterOut(items[t].arr, productId))
             IN  /\ Mutate(t, newItems, discountRate[t], writable)
                 /\ Render(t, page, newItems)
                 /\ last' = Returned(call, page, newItems,
                                     [call EXCEPT !.note = "info", !.saved = writable])
        ELSE LET newArr == SetQuantity(items[t].arr, i, quantity)
             IN  /\ \A j \in 1..Len(newArr) : newArr[j].quantity \in Quantities
                 /\ Mutate(t, Arr(newArr), discountRate[t], writable)
                 /\ Render(t, page, Arr(newArr))
                 /\ last' = Returned(call, page, Arr(newArr), [call EXCEPT !.saved = writable])

\* updateQuantity(productId, quantity) called by the page
UpdateQuantity(t, productId, quantity, writable) ==
    UpdateQuantityOn(t, view[t],
                     [Call("updateQuantity", t) EXCEPT !.id = productId, !.quantity = quantity],
                     productId, quantity, writable)

\* Clear without the confirm() prompt
ClearUnconfirmed(t, confirmed, writable) ==
    /\ Mutate(t, Arr(<< >>), discountRate[t], writable)
    /\ Render(t, view[t], Arr(<< >>))
    /\ last' = [Call("clear", t) EXCEPT
                    !.result = IF confirmed THEN "confirmed" ELSE "declined",
                    !.note = "info", !.saved = writable]

\* Clear withdrawing the discount code with the items
ClearResettingRate(t, confirmed, writable) ==
    LET call == Call("clear", t)
    IN  IF confirmed
        THEN /\ Mutate(t, Arr(<< >>), 0, writable)
             /\ Render(t, view[t], Arr(<< >>))
             /\ last' = [call EXCEPT !.result = "confirmed", !.note = "info", !.saved = writable]
        ELSE /\ last' = [call EXCEPT !.result = "declined"]
             /\ UNCHANGED <<items, discountRate, storage, pending, view>>

\* clear(), the user answering the confirm() prompt with `confirmed`
Clear(t, confirmed, writable) ==
    LET call == Call("clear", t)
    IN  IF confirmed
        THEN /\ Mutate(t, Arr(<< >>), discountRate[t], writable)
             /\ Render(t, view[t], Arr(<< >>))
             /\ last' = Returned(call, view[t], Arr(<< >>),
                                 [call EXCEPT !.result = "confirmed", !.note = "info",
                                              !.saved = writable])
        ELSE /\ last' = [call EXCEPT !.result = "declined"]
             /\ UNCHANGED <<items, discountRate, storage, pending, view>>

\* NewRate adding the rate of the code to the rate in force
NewRateStacked(rate, normalized) == rate + CodeRate(normalized)

\* this.discountRate = codes[normalized]
NewRate(rate, normalized) == CodeRate(normalized)

\* ApplyDiscountCode withdrawing the rate in force on a code that is not in the table
ApplyDiscountCodeResetting(t, code, writable) ==
    LET call == [Call("applyDiscountCode", t) EXCEPT !.code = code]
        normalized == ToUpperCase(Trim(code.chars))
    IN  IF ~code.isString \/ code.chars = << >>
        THEN /\ last' = [call EXCEPT !.note = "warning"]
             /\ UNCHANGED <<items, discountRate, storage, pending, view>>
        ELSE /\ Len(items[t].wraps) < MaxNest
             /\ Mutate(t, items[t], NewRate(discountRate[t], normalized), writable)
             /\ Render(t, view[t], items[t])
             /\ last' = IF CodeRate(normalized) = 0
                        THEN [call EXCEPT !.result = "false", !.note = "error"]
                        ELSE Returned(call, view[t], items[t],
                                      [call EXCEPT !.result = "true", !.note = "success",
                                                   !.saved = writable])

\* applyDiscountCode(code); with this.items not an array the render() after
\* the save throws, and the call ends without its message and its return.
ApplyDiscountCode(t, code, writable) ==
    LET call == [Call("applyDiscountCode", t) EXCEPT !.code = code]
        normalized == ToUpperCase(Trim(code.chars))
    IN  IF ~code.isString \/ code.chars = << >>
        THEN /\ last' = [call EXCEPT !.note = "warning"]
             /\ UNCHANGED <<items, discountRate, storage, pending, view>>
        ELSE IF CodeRate(normalized) # 0
        THEN /\ Len(items[t].wraps) < MaxNest
             /\ Mutate(t, items[t], NewRate(discountRate[t], normalized), writable)
             /\ Render(t, view[t], items[t])
             /\ last' = Returned(call, view[t], items[t],
                                 [call EXCEPT !.result = "true", !.note = "success",
                                              !.saved = writable])
        ELSE /\ last' = [call EXCEPT !.result = "false", !.note = "error"]
             /\ UNCHANGED <<items, discountRate, storage, pending, view>>

\* CallGetTotals answering from the state before the last call
CallGetTotalsCached(t) ==
    /\ last' = IF IsArray(items[t])
               THEN [Call("getTotals", t) EXCEPT
                        !.totals = GetTotals(last.pre.items.arr, last.pre.discountRate)]
               ELSE [Call("getTotals", t) EXCEPT !.result = "throw"]
    /\ UNCHANGED <<items, discountRate, storage, pending, view>>

\* getTotals()
CallGetTotals(t) ==
    /\ last' = IF IsArray(items[t])
               THEN [Call("getTotals", t) EXCEPT !.totals = GetTotals(items[t].arr, discountRate[t])]
               ELSE [Call("getTotals", t) EXCEPT !.result = "throw"]
    /\ UNCHANGED <<items, discountRate, storage, pending, view>>

\* window.currentUser: none, one without an id, one with an id
Users == {"none", "anonymous", "member"}

\* ProceedToCheckout testing the session before the cart
ProceedToCheckoutSessionFirst(t, user) ==
    /\ last' = LET call == [Call("proceedToCheckout", t) EXCEPT !.user = user]
               IN  IF user # "member"
                   THEN [call EXCEPT !.note = "info", !.ui = "login-modal"]
                   ELSE IF IsArray(items[t]) /\ Len(items[t].arr) = 0
                   THEN [call EXCEPT !.note = "warning"]
                   ELSE [call EXCEPT !.ui = "payment-modal"]
    /\ UNCHANGED <<items, discountRate, storage, pending, view>>

\* proceedToCheckout(); the length of a value that is not an array is
\* undefined, which is not 0.
ProceedToCheckout(t, user) ==
    /\ last' = LET call == [Call("proceedToCheckout", t) EXCEPT !.user = user]
               IN  IF IsArray(items[t]) /\ Len(items[t].arr) = 0
                   THEN [call EXCEPT !.note = "warning"]
                   ELSE IF user # "member"
                   THEN [call EXCEPT !.note = "info", !.ui = "login-modal"]
                   ELSE [call EXCEPT !.ui = "payment-modal"]
    /\ UNCHANGED <<items, discountRate, storage, pending, view>>

\* getCheckoutData()
CallGetCheckoutData(t) ==
    /\ last' = IF IsArray(items[t])
               THEN [Call("getCheckoutData", t) EXCEPT
                        !.checkout = CheckoutData(items[t].arr, discountRate[t])]
               ELSE [Call("getCheckoutData", t) EXCEPT !.result = "throw"]
    /\ UNCHANGED <<items, discountRate, storage, pending, view>>

\* render() called by the page (the cart is opened); without the cart
\* elements it logs an error and returns.
CallRender(t) ==
    /\ Render(t, view[t], items[t])
    /\ last' = Returned(Call("render", t), view[t], items[t],
                        [Call("render", t) EXCEPT
                            !.note = IF RenderOutcome(view[t], items[t]) = "noop"
                                     THEN "console-error" ELSE "none"])
    /\ UNCHANGED <<items, discountRate, storage, pending>>

\* Construct starting from the items and the rate of the engine before
ConstructKeepingState(t) ==
    /\ items' = [items EXCEPT ![t] = IF storage.kind = "json" THEN HydratedItems(storage) ELSE @]
    /\ discountRate' = [discountRate EXCEPT
                            ![t] = IF storage.kind = "json" THEN HydratedRate(storage) ELSE @]
    /\ pending' = [pending EXCEPT ![t] = 0]
    /\ view' = [view EXCEPT ![t] = Page(view[t].dom)]
    /\ last' = Call("construct", t)
    /\ UNCHANGED storage

\* new ShoppingCart() on a page load of tab t: the events queued and the
\* timers set for the document that is replaced are dropped.
Construct(t) ==
    /\ items' = [items EXCEPT ![t] = HydratedItems(storage)]
    /\ discountRate' = [discountRate EXCEPT ![t] = HydratedRate(storage)]
    /\ pending' = [pending EXCEPT ![t] = 0]
    /\ view' = [view EXCEPT ![t] = Page(view[t].dom)]
    /\ last' = Call("construct", t)
    /\ UNCHANGED storage

\* The listener of init() on a storage event for STORAGE_KEY; on a value
\* that is not an array render() throws (with the cart elements) or, without
\* them, updateCartBadge() does.
StorageEvent(t) ==
    /\ pending[t] > 0
    /\ items' = [items EXCEPT ![t] = LoadFromStorage(storage)]
    /\ pending' = [pending EXCEPT ![t] = pending[t] - 1]
    /\ Render(t, view[t], LoadFromStorage(storage))
    /\ last' = [Call("storage", t) EXCEPT
                    !.result = IF IsArray(LoadFromStorage(storage)) THEN "undefined" ELSE "throw"]
    /\ UNCHANGED <<discountRate, storage>>

-----------------------------------------------------------------------------
(* The controls render() puts into the page of tab t *)

\* An input or change event on the i-th quantity input, whose value is then
\* text: both run the one debounced handler of the input.
InputEvent(t, i, text) ==
    /\ i \in 1..Len(view[t].inputs)
    /\ view[t].inputs[i].attached
    /\ view' = [view EXCEPT ![t].inputs[i] =
                    [@ EXCEPT !.value = text, !.timers = Debounced(@)]]
    /\ last' = [Call("input", t) EXCEPT !.id = view[t].inputs[i].id, !.input = i, !.text = text]
    /\ UNCHANGED <<items, discountRate, storage, pending>>

\* A timer of the debounced handler of input i fires: the handler reads the
\* value of the input and calls updateQuantity. Every handler waits the same
\* 350 ms, so timers fire in the order they were set: the timer of an input
\* taken out of the document was set before the render that put the later
\* inputs there, and fires before theirs.
Commit(t, i) ==
    /\ i \in 1..Len(view[t].inputs)
    /\ view[t].inputs[i].timers > 0
    /\ \A j \in 1..(i - 1) : view[t].inputs[j].attached \/ view[t].inputs[j].timers = 0
    /\ LET input == view[t].inputs[i]
           v == CommitValue(input.value)
       IN  UpdateQuantityOn(t, [view[t] EXCEPT !.inputs = Fired(@, i)],
                            [Call("updateQuantity", t) EXCEPT
                                !.id = input.id, !.quantity = v, !.input = i,
                                !.text = input.value],
                            input.id, v, TRUE)

\* A click on the decrease (delta = -1, from 1 when the item is not found) or
\* increase (delta = 1, from 0) button next to input i.
ClickStep(t, i, delta) ==
    /\ i \in 1..Len(view[t].inputs)
    /\ view[t].inputs[i].attached
    /\ LET id == view[t].inputs[i].id
           j == FindIndex(items[t].arr, id)
           from == IF j > 0 THEN items[t].arr[j].quantity
                   ELSE IF delta < 0 THEN 1 ELSE 0
       IN  UpdateQuantity(t, id, from + delta, TRUE)

\* A click on the remove button next to input i
ClickRemove(t, i) ==
    /\ i \in 1..Len(view[t].inputs)
    /\ view[t].inputs[i].attached
    /\ RemoveItem(t, view[t].inputs[i].id, TRUE)

-----------------------------------------------------------------------------
(* The script that binds window.Cart *)

ReadyStates == {"loading", "interactive", "complete"}

\* The script runs on a fresh document of tab t whose readyState is
\* readyState; `fires` tells whether DOMContentLoaded is still to come. It
\* registers its first DOMContentLoaded listener, then either a second one
\* (loading) or constructs the engine at once when the page has the cart
\* elements.
RunScript(t, readyState, fires) ==
    LET constructs == readyState # "loading" /\ view[t].dom
    IN  /\ readyState = "loading" => fires
        /\ readyState = "complete" => ~fires
        /\ view' = [view EXCEPT ![t] =
                        [dom |-> view[t].dom, inputs |-> << >>,
                         engines |-> IF constructs THEN 1 ELSE 0,
                         dcl |-> IF fires THEN "pending" ELSE "fired",
                         second |-> readyState = "loading"]]
        /\ items' = [items EXCEPT ![t] = IF constructs THEN HydratedItems(storage) ELSE Arr(<< >>)]
        /\ discountRate' = [discountRate EXCEPT ![t] = IF constructs THEN HydratedRate(storage) ELSE 0]
        /\ pending' = [pending EXCEPT ![t] = 0]
        /\ last' = [Call("script", t) EXCEPT !.result = readyState]
        /\ UNCHANGED storage

\* DOMContentLoaded: the first listener constructs an engine when the page
\* has the cart elements, whether or not window.Cart is set; the second one,
\* if registered, only when window.Cart is not set.
DOMContentLoaded(t) ==
    LET first == IF view[t].dom THEN 1 ELSE 0
        second == IF view[t].second /\ view[t].engines + first = 0 /\ view[t].dom THEN 1 ELSE 0
    IN  /\ view[t].dcl = "pending"
        /\ view' = [view EXCEPT ![t].dcl = "fired", ![t].engines = @ + first + second]
        /\ items' = [items EXCEPT ![t] = IF first + second > 0 THEN HydratedItems(storage) ELSE @]
        /\ discountRate' = [discountRate EXCEPT
                                ![t] = IF first + second > 0 THEN HydratedRate(storage) ELSE @]
        /\ last' = Call("DOMContentLoaded", t)
        /\ UNCHANGED <<storage, pending>>

-----------------------------------------------------------------------------
(* Specifications *)

\* What localStorage may hold when the first engine is constructed.
LegacyCart == <<NewLineItem(ProductB, 2)>>
EnvelopeCart == <<NewLineItem(ProductA, 1), NewLineItem(ProductB, 1)>>

InitialStorages ==
    {Absent, Garbage, OtherJson,
     Json(StringifyArr(LegacyCart), << >>),
     Json(StringifyArr(EnvelopeCart), <<15>>)}

\* Every tab has constructed its engine over storage; doms[t] tells whether
\* the page of tab t has the cart elements.
InitOn(doms, storages) ==
    /\ storage \in storages
    /\ \E dom \in doms :
            /\ view = [t \in DOMAIN dom |-> Page(dom[t])]
            /\ items = [t \in DOMAIN dom |-> HydratedItems(storage)]
            /\ discountRate = [t \in DOMAIN dom |-> HydratedRate(storage)]
            /\ pending = [t \in DOMAIN dom |-> 0]
            /\ last = [op |-> "construct",
                       tab |-> CHOOSE t \in DOMAIN dom : \A u \in DOMAIN dom : t <= u,
                       id |-> NoId, quantity |-> 0, code |-> NonStringCode, input |-> 0, text |-> << >>,
                       result |-> "undefined", note |-> "none", saved |-> FALSE,
                       totals |-> NoTotals,
                       user |-> "none", ui |-> "none", checkout |-> NoCheckout,
                       pre |-> [items |-> Arr(<< >>), discountRate |-> 0, storage |-> storage]]

\* The same on pages that all have the cart elements.
InitFor(tabs, storages) == InitOn({[t \in tabs |-> TRUE]}, storages)

Tabs == DOMAIN items

\* The calls a page can make on the engine of one of its tabs.
Calls(products, quantities, productIds, codes, writables) ==
    \/ \E t \in Tabs, product \in products, quantity \in quantities, writable \in writables :
            AddItem(t, product, quantity, writable)
    \/ \E t \in Tabs, productId \in productIds, writable \in writables :
            RemoveItem(t, productId, writable)
    \/ \E t \in Tabs, productId \in productIds, quantity \in quantities, writable \in writables :
            UpdateQuantity(t, productId, quantity, writable)
    \/ \E t \in Tabs, confirmed \in BOOLEAN, writable \in writables :
            Clear(t, confirmed, writable)
    \/ \E t \in Tabs, code \in codes, writable \in writables :
            ApplyDiscountCode(t, code, writable)
    \/ \E t \in Tabs : CallGetTotals(t)
    \/ \E t \in Tabs : Construct(t)

\* The calls towards the checkout; they read the cart only.
Checkout ==
    \/ \E t \in Tabs, user \in Users : ProceedToCheckout(t, user)
    \/ \E t \in Tabs : CallGetCheckoutData(t)

\* One engine in one tab, localStorage accepting every write.
Init == InitFor({1}, InitialStorages)

Next ==
    \/ Calls(Products, Quantities, ProductIds, Codes, {TRUE})
    \/ Checkout

Spec == Init /\ [][Next]_vars

\* Two tabs of one browser, each with its engine, over the same localStorage.
TabProducts == {ProductA}
TabProductIds == {Str("a")}
TabCodes == {StringCode(SAVE10), StringCode(<<"S", "A", "V", "E", "2", "0">>)}

InitTabs == InitFor({1, 2}, {Absent})

NextTabs ==
    \/ Calls(TabProducts, 1..MaxQty, TabProductIds, TabCodes, {TRUE})
    \/ \E t \in Tabs : StorageEvent(t)

SpecTabs == InitTabs /\ [][NextTabs]_vars

\* One engine handed products that the catalogue does not vouch for: one
\* without a name, one discounted by more than 100%, one without an id.
ProductNoName == [id |-> Str("n"), name |-> Undefined, price |-> 30, discount |-> 0,
                  imageUrl |-> "", category |-> "", has |-> {}]
ProductOver == [id |-> Str("o"), name |-> "Promo", price |-> 40, discount |-> 150,
                imageUrl |-> "", category |-> "", has |-> {"discount"}]
OddProducts == {ProductNoName, ProductOver, ProductNoId}
OddProductIds == {Str("n"), Str("o")}

InitOdd == InitFor({1}, {Absent})

NextOdd ==
    \/ Calls(OddProducts, 0..MaxQty, OddProductIds, TabCodes, {TRUE})
    \/ Checkout

SpecOdd == InitOdd /\ [][NextOdd]_vars

\* One engine over a localStorage whose setItem may throw (quota exceeded).
InitQuota == InitFor({1}, {Absent, Garbage, OtherJson})

NextQuota == Calls(TabProducts, 0..MaxQty, TabProductIds, TabCodes, BOOLEAN)

SpecQuota == InitQuota /\ [][NextQuota]_vars

\* One engine handed a product whose id is the number 5; the page looks the
\* item up by that number, the rendered controls by the string "5".
ProductNum == [id |-> Num("5"), name |-> "Gum", price |-> 5, discount |-> 0,
               imageUrl |-> "", category |-> "", has |-> {}]
NumProducts == {ProductNum}
NumProductIds == {Num("5"), Str("5")}

InitNum == InitFor({1}, {Absent})

NextNum == Calls(NumProducts, 1..MaxQty, NumProductIds, TabCodes, {TRUE})

SpecNum == InitNum /\ [][NextNum]_vars

\* One engine on a page with or without the cart elements.
InitHeadless == InitOn([{1} -> BOOLEAN], {Absent})

NextHeadless ==
    \/ Calls(TabProducts, 0..MaxQty, TabProductIds, TabCodes, {TRUE})
    \/ \E t \in Tabs : CallRender(t)

SpecHeadless == InitHeadless /\ [][NextHeadless]_vars

\* Two tabs showing the cart: the controls of the page of tab 1 are used,
\* tab 2 is the other tab, which adds and removes the product.
TypingTabs == {1}

InitUi == InitFor({1, 2}, {Absent})

NextUi ==
    \/ \E t \in Tabs : AddItem(t, ProductA, 1, TRUE)
    \/ \E t \in TypingTabs : CallRender(t)
    \/ \E t \in TypingTabs, i \in 1..MaxItems, text \in Texts : InputEvent(t, i, text)
    \/ \E t \in TypingTabs, i \in 1..(MaxItems + MaxDetached) : Commit(t, i)
    \/ \E t \in TypingTabs, i \in 1..MaxItems, delta \in {0 - 1, 1} : ClickStep(t, i, delta)
    \/ \E t \in TypingTabs, i \in 1..MaxItems : ClickRemove(t, i)
    \/ \E t \in TypingTabs, confirmed \in BOOLEAN : Clear(t, confirmed, TRUE)
    \/ \E t \in Tabs \ TypingTabs : RemoveItem(t, Str("a"), TRUE)
    \/ \E t \in Tabs : StorageEvent(t)

SpecUi == InitUi /\ [][NextUi]_vars

\* One tab whose document is loaded again and again, the script running at
\* any readyState; the page calls the engine once window.Cart is set.
InitLoad == InitOn([{1} -> BOOLEAN], {Absent})

NextLoad ==
    \/ \E t \in Tabs, readyState \in ReadyStates, fires \in BOOLEAN : RunScript(t, readyState, fires)
    \/ \E t \in Tabs : DOMContentLoaded(t)
    \/ /\ \A t \in Tabs : view[t].engines > 0
       /\ Calls(TabProducts, 1..MaxQty, TabProductIds, TabCodes, {TRUE})

SpecLoad == InitLoad /\ [][NextLoad]_vars

-----------------------------------------------------------------------------
(* Properties *)

\* The engine of the last call and its this.items before and after the call.
Before == last.pre.items.arr
After == items[last.tab].arr

\* Line items of seq whose id is the string id
Holding(seq, id) == {i \in 1..Len(seq) : seq[i].id = id}

\* Quantity seq holds under id: 0 when no line item has the id
QuantityOf(seq, id) == IF Holding(seq, id) = {} THEN 0 ELSE seq[CHOOSE i \in Holding(seq, id) : TRUE].quantity

\* seq without its i-th element
Without(seq, i) == SubSeq(seq, 1, i - 1) \o SubSeq(seq, i + 1, Len(seq))

RECURSIVE SumOver(_, _, _)
\* Sum of f[i] over the indices i of set
SumOver(f, set, n) ==
    IF n = 0 THEN 0
    ELSE (IF n \in set THEN f[n] ELSE 0) + SumOver(f, set, n - 1)

Sum(f) == SumOver(f, DOMAIN f, Len(f))

\* C1: a successful addItem with a positive quantity leaves exactly one line
\* item under the product's id, whose quantity is the quantity held before
\* (0 for a new id) plus the requested one, and raises the item count by the
\* requested quantity; so a sequence of such calls for one id ends with one
\* line item holding the sum of the requested quantities.
C1_AddItemSumsQuantities ==
    (last.op = "addItem" /\ last.result = "true" /\ last.quantity > 0) =>
        /\ Cardinality(Holding(After, StringOf(last.id))) = 1
        /\ QuantityOf(After, StringOf(last.id)) = QuantityOf(Before, StringOf(last.id)) + last.quantity
        /\ SumQuantity(After) = SumQuantity(Before) + last.quantity
        /\ (Before = << >> => GetTotals(After, 0).itemCount = last.quantity)

C1_Witness ==
    /\ last.op = "addItem" /\ last.result = "true" /\ last.quantity = 1
    /\ Before = <<NewLineItem(ProductA, 1)>>
    /\ After = <<NewLineItem(ProductA, 2)>>

\* C2: every line item of every engine has quantity >= 1.
C2_QuantityAtLeastOne ==
    \A t \in Tabs : \A i \in 1..Len(items[t].arr) : items[t].arr[i].quantity >= 1

\* C3: the totals a getTotals call returns take the global discount on the
\* subtotal left after the per-item discounts: with S the sum of price x
\* quantity and D the sum of price x discount/100 x quantity,
\* discountAmount = D + (S - D) x rate, discountedSubtotal = S -
\* discountAmount, total = discountedSubtotal + tax, itemCount = sum of the
\* quantities; one item 10.00 x 2 at 10% under rate 0.10 gives 20.00, 3.80,
\* 16.20, 1.62 and 17.82.
C3_GlobalDiscountAfterItemDiscounts ==
    (last.op = "getTotals" /\ last.result # "throw") =>
        LET cart == After
            rate == discountRate[last.tab]
            S == Sum([i \in 1..Len(cart) |-> cart[i].price * cart[i].quantity * Unit])
            D == Sum([i \in 1..Len(cart) |-> cart[i].price * cart[i].discount * cart[i].quantity * 1000])
            T == last.totals
        IN  /\ T.subtotal = S
            /\ T.discountAmount * 100 = D * 100 + (S - D) * rate
            /\ T.discountedSubtotal = S - T.discountAmount
            /\ T.total = T.discountedSubtotal + T.tax
            /\ T.itemCount = Sum([i \in 1..Len(cart) |-> cart[i].quantity])
            /\ (cart = <<NewLineItem(ProductA, 2)>> /\ rate = 10) =>
                    T = [subtotal |-> 20000000, discountAmount |-> 3800000,
                         discountedSubtotal |-> 16200000, tax |-> 1620000,
                         total |-> 17820000, itemCount |-> 2]

C3_Witness ==
    /\ last.op = "getTotals" /\ last.result # "throw"
    /\ After = <<NewLineItem(ProductA, 2)>>
    /\ discountRate[last.tab] = 10
    /\ last.totals.total = 17820000

\* C4: after a storage event for the key, the items of the receiving tab are
\* the item list that storage holds.
C4_StorageEventAdoptsItemList ==
    (last.op = "storage" /\ storage.kind = "json") =>
        /\ IsArray(items[last.tab])
        /\ items[last.tab].arr = ParseArr(storage.arr)

\* C5: after a storage event for the key, the discount rate of the receiving
\* tab is the rate of the stored envelope.
C5_StorageEventAdoptsRate ==
    (last.op = "storage" /\ storage.kind = "json" /\ storage.wraps # << >>) =>
        discountRate[last.tab] = LastOf(storage.wraps)

\* C6: an engine constructed over the envelope that the engine before it
\* persisted has that engine's items and discount rate; constructed over a
\* legacy bare array it has exactly the items of the array and rate 0.
C6_RoundTrip ==
    last.op = "construct" =>
        /\ (last.pre.storage = Json(StringifyArr(Before), <<last.pre.discountRate>>)) =>
                /\ items[last.tab] = last.pre.items
                /\ discountRate[last.tab] = last.pre.discountRate
        /\ (last.pre.storage = Json(StringifyArr(LegacyCart), << >>)) =>
                /\ items[last.tab] = Arr(LegacyCart)
                /\ discountRate[last.tab] = 0

C6_Witness ==
    /\ last.op = "construct"
    /\ last.pre.storage = Json(StringifyArr(Before), <<last.pre.discountRate>>)
    /\ last.pre.discountRate = 15
    /\ After = <<NewLineItem(ProductB, 1), NewLineItem(ProductA, 2)>>

\* The last call was a mutating operation that completed.
Mutated ==
    \/ last.op = "addItem" /\ last.result = "true"
    \/ last.op = "removeItem" /\ last.result # "throw"
    \/ last.op = "updateQuantity" /\ last.result # "throw" /\ Holding(Before, last.id) # {}
    \/ last.op = "clear" /\ last.result = "confirmed"
    \/ last.op = "applyDiscountCode" /\ last.result = "true"

\* C7: after a mutating operation, storage holds the envelope of the items
\* and the discount rate of the engine that ran it, never a bare array.
C7_EnvelopePersisted ==
    Mutated =>
        /\ storage.kind = "json"
        /\ Len(storage.wraps) = 1
        /\ storage.wraps[1] = discountRate[last.tab]
        /\ ParseArr(storage.arr) = After

C7_Witness ==
    /\ Mutated
    /\ last.op = "addItem"
    /\ last.pre.storage = Json(StringifyArr(LegacyCart), << >>)
    /\ storage.wraps = <<0>>
    /\ Len(After) = 2

\* C8: updateQuantity(id, q) with q <= 0 on an item of the cart removes the
\* item, keeps the other items as they were, and persists the result.
C8_NonPositiveQuantityRemoves ==
    (last.op = "updateQuantity" /\ last.quantity <= 0 /\ Holding(Before, last.id) # {}) =>
        /\ Holding(After, last.id) = {}
        /\ \E i \in Holding(Before, last.id) : After = Without(Before, i)
        /\ discountRate[last.tab] = last.pre.discountRate
        /\ storage = Json(StringifyArr(After), <<discountRate[last.tab]>>)

C8_Witness ==
    /\ last.op = "updateQuantity" /\ last.quantity = 0
    /\ Len(Before) = 2 /\ Holding(Before, last.id) = {1}
    /\ After = <<Before[2]>>

\* C9: removeItem(id) with no item under id leaves items and the discount
\* rate as they were and does not throw; after any removeItem(id) no item is
\* under id, so a second removeItem(id) is such a call.
C9_RemoveItemIdempotent ==
    (last.op = "removeItem" /\ IsArray(last.pre.items)) =>
        /\ last.result # "throw"
        /\ Holding(After, last.id) = {}
        /\ Holding(Before, last.id) = {} =>
                /\ items[last.tab] = last.pre.items
                /\ discountRate[last.tab] = last.pre.discountRate
                /\ (last.pre.storage = Json(StringifyArr(Before), <<last.pre.discountRate>>)) =>
                        storage = last.pre.storage

C9_Witness ==
    /\ last.op = "removeItem"
    /\ Holding(Before, last.id) = {}
    /\ last.pre.storage = Json(StringifyArr(Before), <<last.pre.discountRate>>)
    /\ Len(After) = 2

\* C10: updateQuantity(id, q) with q > 0 sets the quantity of the item under
\* id to q and changes no other item, no position and not the discount
\* rate; with no item under id it changes neither items, rate nor storage.
C10_UpdateQuantitySetsExactly ==
    (last.op = "updateQuantity" /\ last.quantity > 0 /\ last.result # "throw") =>
        /\ discountRate[last.tab] = last.pre.discountRate
        /\ Len(After) = Len(Before)
        /\ \A i \in 1..Len(Before) :
                After[i] = IF Before[i].id = last.id
                           THEN [Before[i] EXCEPT !.quantity = last.quantity]
                           ELSE Before[i]
        /\ Holding(Before, last.id) = {} =>
                /\ items[last.tab] = last.pre.items
                /\ storage = last.pre.storage

C10_Witness ==
    /\ last.op = "updateQuantity" /\ last.quantity = 1
    /\ Len(Before) = 2
    /\ Before[2].id = last.id /\ Before[2].quantity = 2
    /\ After[2].quantity = 1

\* The state of the engine of the last call is as it was before the call.
CartUnchanged ==
    /\ items[last.tab] = last.pre.items
    /\ discountRate[last.tab] = last.pre.discountRate
    /\ storage = last.pre.storage

BlankSave15 == <<" ", "s", "a", "v", "e", "1", "5", " ">>

\* C11: the discount rate is 0, 0.10 or 0.15 in every state; after
\* applyDiscountCode it is the table value of the code when the code is
\* SAVE10 or (after trim and upper-casing) SAVE15, whatever rate was in
\* force, and the rate in force before when the code is any other.
C11_RateOfLastValidCode ==
    /\ \A t \in Tabs : discountRate[t] \in {0, 10, 15}
    /\ (last.op = "applyDiscountCode" /\ last.result # "throw") =>
            discountRate[last.tab] =
                IF last.code = StringCode(SAVE10) THEN 10
                ELSE IF last.code = StringCode(BlankSave15) THEN 15
                ELSE last.pre.discountRate

C11_Witness ==
    /\ last.op = "applyDiscountCode" /\ last.result = "true"
    /\ last.code = StringCode(BlankSave15)
    /\ last.pre.discountRate = 10
    /\ discountRate[last.tab] = 15

\* The code of the last call is a non-empty string that is not in the table.
UnrecognizedCode ==
    /\ last.code.isString
    /\ last.code.chars # << >>
    /\ last.code.chars \notin {SAVE10, BlankSave15}

\* C12: applyDiscountCode with an unrecognized non-empty string returns
\* false and leaves items, the discount rate, storage and the totals as
\* they were.
C12_UnrecognizedCodeChangesNothing ==
    (last.op = "applyDiscountCode" /\ UnrecognizedCode) =>
        /\ last.result = "false"
        /\ CartUnchanged
        /\ GetTotals(After, discountRate[last.tab]) = GetTotals(Before, last.pre.discountRate)

C12_Witness ==
    /\ last.op = "applyDiscountCode" /\ UnrecognizedCode
    /\ last.pre.discountRate = 10
    /\ Len(Before) = 2
    /\ last.result = "false"

\* C13: applyDiscountCode with an empty or non-string code returns false,
\* emits a warning and leaves the cart and storage as they were.
C13_EmptyCodeReturnsFalse ==
    (last.op = "applyDiscountCode" /\ (~last.code.isString \/ last.code.chars = << >>)) =>
        /\ last.result = "false"
        /\ last.note = "warning"
        /\ CartUnchanged

\* C14: addItem of a product without an id or without a name returns false,
\* emits an error and leaves items, the discount rate and storage as they
\* were.
C14_AddItemRequiresIdAndName ==
    (last.op = "addItem" /\ (Falsy(last.id) \/ last.id = ProductNoName.id)) =>
        /\ last.result = "false"
        /\ last.note = "error"
        /\ CartUnchanged

\* The sums of the totals algorithm over a cart: price x quantity, and
\* price x discount/100 x quantity.
RawSubtotal(cart) == Sum([i \in 1..Len(cart) |-> cart[i].price * cart[i].quantity * Unit])
ItemDiscounts(cart) == Sum([i \in 1..Len(cart) |-> cart[i].price * cart[i].discount * cart[i].quantity * 1000])

\* C15: the tax of getTotals is a tenth of max(0, discountedSubtotal), hence
\* never negative; with a negative discountedSubtotal the tax is 0 and the
\* total is the discountedSubtotal.
C15_TaxOnNonNegativeBase ==
    (last.op = "getTotals" /\ last.result # "throw") =>
        LET T == last.totals
            base == IF T.discountedSubtotal > 0 THEN T.discountedSubtotal ELSE 0
            rate == discountRate[last.tab]
        IN  /\ T.discountedSubtotal * 10 =
                    ((RawSubtotal(After) - ItemDiscounts(After)) \div 10) * (100 - rate)
            /\ T.tax * 10 = base
            /\ T.tax >= 0
            /\ T.discountedSubtotal < 0 => (T.tax = 0 /\ T.total = T.discountedSubtotal)

C15_Witness ==
    /\ last.op = "getTotals" /\ last.result # "throw"
    /\ After = <<NewLineItem(ProductOver, 1)>>
    /\ last.totals.discountedSubtotal = 0 - 2000000
    /\ last.totals.tax = 0
    /\ last.totals.total = 0 - 2000000

\* C16: getTotals leaves items, the discount rate and storage as they were,
\* and every value it returns is the value the totals algorithm gives on the
\* state at the call; the result is a function of that state alone, so two
\* calls without a mutation between them agree and a call after a mutation
\* shows the mutated state.
C16_GetTotalsPure ==
    (last.op = "getTotals" /\ last.result # "throw") =>
        LET T == last.totals
            S == RawSubtotal(After)
            D == ItemDiscounts(After)
            rate == discountRate[last.tab]
        IN  /\ CartUnchanged
            /\ T.subtotal = S
            /\ T.discountAmount * 100 = D * 100 + (S - D) * rate
            /\ T.discountedSubtotal = S - T.discountAmount
            /\ T.tax * 10 = (IF T.discountedSubtotal > 0 THEN T.discountedSubtotal ELSE 0)
            /\ T.total = T.discountedSubtotal + T.tax
            /\ T.itemCount = Sum([i \in 1..Len(After) |-> After[i].quantity])

C16_Witness ==
    /\ last.op = "getTotals" /\ last.result # "throw"
    /\ Len(After) = 2
    /\ discountRate[last.tab] = 15
    /\ last.totals.itemCount = 3
    /\ last.totals.subtotal > 0

\* C17: a confirmed clear() leaves an empty item list and the envelope of an
\* empty list in storage, for an empty and a populated cart alike; a
\* declined one leaves items, the discount rate and storage as they were.
C17_ClearOnlyOnConfirmation ==
    last.op = "clear" =>
        /\ last.result = "confirmed" =>
                /\ items[last.tab] = Arr(<< >>)
                /\ storage.kind = "json"
                /\ storage.arr = << >>
                /\ Len(storage.wraps) = 1
        /\ last.result = "declined" => CartUnchanged

C17_Witness ==
    /\ last.op = "clear" /\ last.result = "confirmed"
    /\ Len(Before) = 2
    /\ After = << >>
    /\ storage.arr = << >>

\* C18: proceedToCheckout opens the payment UI only with at least one item
\* and a user with an id; with an empty cart it warns and opens nothing,
\* whoever the user is; with items and no such user it prompts the login; it
\* never changes items, the discount rate or storage.
C18_CheckoutGuards ==
    last.op = "proceedToCheckout" =>
        /\ CartUnchanged
        /\ last.ui = "payment-modal" <=> (Len(Before) >= 1 /\ last.user = "member")
        /\ Len(Before) = 0 => (last.note = "warning" /\ last.ui = "none")
        /\ (Len(Before) >= 1 /\ last.user # "member") =>
                (last.note = "info" /\ last.ui = "login-modal")

C18_Witness ==
    /\ last.op = "proceedToCheckout"
    /\ last.ui = "payment-modal"
    /\ last.user = "member"
    /\ Len(Before) = 2

\* C19: getCheckoutData changes neither the cart nor storage; it returns one
\* entry per line item in cart order with the item's id, name, price,
\* quantity and discount, and the subtotal, discount, tax, total and
\* itemCount of getTotals on the same state.
C19_CheckoutDataMatchesCart ==
    (last.op = "getCheckoutData" /\ last.result # "throw") =>
        LET data == last.checkout
            T == GetTotals(After, discountRate[last.tab])
        IN  /\ CartUnchanged
            /\ Len(data.items) = Len(After)
            /\ \A i \in 1..Len(After) :
                    /\ data.items[i].id = After[i].id
                    /\ data.items[i].name = After[i].name
                    /\ data.items[i].price = After[i].price
                    /\ data.items[i].quantity = After[i].quantity
                    /\ data.items[i].discount = After[i].discount
            /\ data.subtotal = T.subtotal
            /\ data.discount = T.discountAmount
            /\ data.tax = T.tax
            /\ data.total = T.total
            /\ data.itemCount = T.itemCount

C19_Witness ==
    /\ last.op = "getCheckoutData" /\ last.result # "throw"
    /\ Len(last.checkout.items) = 2
    /\ last.checkout.items[1].id = Str("b")
    /\ discountRate[last.tab] = 10
    /\ last.checkout.tax > 0

\* C20: a mutating operation whose storage write fails still completes, the
\* items and the discount rate show its effect, and storage keeps the text
\* it had.
C20_FailedWriteKeepsMemory ==
    (Mutated /\ ~last.saved) =>
        /\ last.result # "throw"
        /\ storage = last.pre.storage
        /\ last.op = "addItem" =>
                QuantityOf(After, StringOf(last.id)) = QuantityOf(Before, StringOf(last.id)) + last.quantity
        /\ last.op = "removeItem" => Holding(After, last.id) = {}
        /\ (last.op = "updateQuantity" /\ last.quantity > 0) =>
                QuantityOf(After, last.id) = last.quantity
        /\ (last.op = "updateQuantity" /\ last.quantity <= 0) => Holding(After, last.id) = {}
        /\ last.op = "clear" => After = << >>
        /\ last.op = "applyDiscountCode" => discountRate[last.tab] = 10

C20_Witness ==
    /\ Mutated /\ ~last.saved
    /\ last.op = "addItem" /\ last.quantity = 1
    /\ Before = <<NewLineItem(ProductA, 1)>>
    /\ After = <<NewLineItem(ProductA, 2)>>
    /\ storage = last.pre.storage
    /\ storage # Json(StringifyArr(After), <<discountRate[last.tab]>>)

\* The items of Before that removeItem(last.id) keeps, in their order.
Remaining ==
    LET Kept(item) == item.id # last.id
    IN  SelectSeq(Before, Kept)

\* The envelope of the cart of the engine of the last call.
Envelope == Json(StringifyArr(After), <<discountRate[last.tab]>>)

\* C21: an engine constructed while storage holds nothing under the key,
\* text that does not parse, or JSON that is neither an array nor an object
\* with items, has an empty item list and discount rate 0, whatever the
\* engine before it held; the construction does not throw and leaves
\* storage as it was.
C21_ConstructOverNoCart ==
    (last.op = "construct" /\ last.pre.storage.kind # "json") =>
        /\ items[last.tab] = Arr(<< >>)
        /\ discountRate[last.tab] = 0
        /\ last.result # "throw"
        /\ storage = last.pre.storage

C21_Witness ==
    /\ last.op = "construct"
    /\ last.pre.storage = Garbage
    /\ Len(Before) = 1 /\ last.pre.discountRate = 10
    /\ items[last.tab] = Arr(<< >>) /\ discountRate[last.tab] = 0

\* C22: when no storage event is waiting for any tab, every tab holds the
\* item list and the discount rate of the envelope in storage.
C22_QuiescentTabsAgree ==
    ((\A t \in Tabs : pending[t] = 0) /\ storage.kind = "json") =>
        \A t \in Tabs :
            /\ IsArray(items[t])
            /\ items[t].arr = ParseArr(storage.arr)
            /\ Len(storage.wraps) = 1
            /\ discountRate[t] = storage.wraps[1]

\* What a step of a quantity input and of its debounced handler does: the
\* event of an input, or the timer of one firing.
QuantityInputStep ==
    /\ \A t \in Tabs : \A i \in 1..Len(view'[t].inputs) : view'[t].inputs[i].timers <= 1
    /\ last'.op = "input" =>
            /\ items' = items /\ discountRate' = discountRate /\ storage' = storage
            /\ view'[last'.tab].inputs[last'.input].timers = 1
            /\ view'[last'.tab].inputs[last'.input].value = last'.text
            /\ Len(view'[last'.tab].inputs) = Len(view[last'.tab].inputs)
    /\ (last'.op = "updateQuantity" /\ last'.input > 0) =>
            LET input == view[last'.tab].inputs[last'.input]
                held == Holding(items[last'.tab].arr, input.id)
            IN  /\ input.timers = 1
                /\ last'.id = input.id
                /\ last'.text = input.value
                /\ last'.text = <<"2", ".", "5">> => last'.quantity = 2
                /\ last'.text \in {<<"0">>, << >>} => last'.quantity = 1
                /\ (IsArray(items[last'.tab]) /\ held # {}) =>
                        QuantityOf(items'[last'.tab].arr, input.id) = last'.quantity

\* C23: an input or change event on a quantity input calls nothing and
\* persists nothing, and leaves exactly one timer pending for the input
\* whatever was pending before; when the timer fires it was the only one of
\* the input, and the one updateQuantity call it makes carries the id of the
\* input and the value the input holds then, read by parseInt and raised to 1
\* when that is NaN or below 1.
C23_DebounceCoalesces == [][QuantityInputStep]_vars

C23_Witness ==
    /\ last.op = "updateQuantity" /\ last.input > 0
    /\ last.text = <<"2", ".", "5">> /\ last.quantity = 2
    /\ QuantityOf(Before, last.id) = 1
    /\ QuantityOf(After, last.id) = 2
    /\ storage = Envelope

\* C24: a confirmed clear() leaves the item list empty and the discount
\* rate as it was, and storage holds the envelope of the empty list with
\* that rate; an addItem on the empty cart keeps the rate as well, so the
\* totals of the item added are discounted by it.
C24_ClearKeepsRate ==
    /\ (last.op = "clear" /\ last.result = "confirmed") =>
            /\ After = << >>
            /\ discountRate[last.tab] = last.pre.discountRate
            /\ storage = Json(<< >>, <<last.pre.discountRate>>)
    /\ (last.op = "addItem" /\ last.result = "true" /\ Before = << >>) =>
            /\ discountRate[last.tab] = last.pre.discountRate
            /\ GetTotals(After, discountRate[last.tab]).discountAmount * 100 =
                    ItemDiscounts(After) * 100
                        + (RawSubtotal(After) - ItemDiscounts(After)) * last.pre.discountRate

C24_Witness ==
    /\ last.op = "clear" /\ last.result = "confirmed"
    /\ Len(Before) = 2
    /\ last.pre.discountRate = 15
    /\ discountRate[last.tab] = 15
    /\ storage = Json(<< >>, <<15>>)

\* C25: addItem of an id the cart does not hold appends the new line item
\* after the items held; addItem of an id it holds and updateQuantity with a
\* positive quantity change the quantity of that item only and move no item;
\* removeItem, and updateQuantity with a quantity <= 0, leave the other
\* items in the order they had.
C25_InsertionOrder ==
    /\ (last.op = "addItem" /\ last.result = "true") =>
            IF Holding(Before, StringOf(last.id)) = {}
            THEN /\ Len(After) = Len(Before) + 1
                 /\ SubSeq(After, 1, Len(Before)) = Before
                 /\ After[Len(After)].id = StringOf(last.id)
            ELSE /\ Len(After) = Len(Before)
                 /\ \A i \in 1..Len(Before) :
                        /\ After[i].id = Before[i].id
                        /\ Before[i].id # StringOf(last.id) => After[i] = Before[i]
    /\ (last.op = "updateQuantity" /\ last.result # "throw" /\ last.quantity > 0) =>
            /\ Len(After) = Len(Before)
            /\ \A i \in 1..Len(Before) :
                    /\ After[i].id = Before[i].id
                    /\ Before[i].id # last.id => After[i] = Before[i]
    /\ (last.op = "removeItem" /\ last.result # "throw") => After = Remaining
    /\ (last.op = "updateQuantity" /\ last.result # "throw" /\ last.quantity <= 0
            /\ Holding(Before, last.id) # {}) => After = Remaining

C25_Witness ==
    /\ last.op = "addItem" /\ last.result = "true"
    /\ Before = <<NewLineItem(ProductB, 2)>>
    /\ After = <<NewLineItem(ProductB, 2), NewLineItem(ProductA, 1)>>

\* C26: on a page without the cart elements nothing is rendered and render()
\* returns after logging, without a change to the cart; and with or without
\* the elements removeItem, updateQuantity, a confirmed clear and a valid
\* applyDiscountCode complete, leave the items and the rate their operation
\* defines, and persist the envelope of them.
C26_HeadlessOperations ==
    /\ \A t \in Tabs : ~view[t].dom => view[t].inputs = << >>
    /\ (last.op = "render" /\ ~view[last.tab].dom) =>
            /\ last.result # "throw"
            /\ last.note = "console-error"
            /\ CartUnchanged
    /\ last.op = "removeItem" =>
            /\ last.result # "throw"
            /\ After = Remaining
            /\ discountRate[last.tab] = last.pre.discountRate
            /\ storage = Envelope
    /\ (last.op = "updateQuantity" /\ Holding(Before, last.id) # {}) =>
            /\ last.result # "throw"
            /\ After = IF last.quantity <= 0 THEN Remaining
                       ELSE [i \in 1..Len(Before) |->
                                IF Before[i].id = last.id
                                THEN [Before[i] EXCEPT !.quantity = last.quantity]
                                ELSE Before[i]]
            /\ discountRate[last.tab] = last.pre.discountRate
            /\ storage = Envelope
    /\ (last.op = "clear" /\ last.result # "declined") =>
            /\ last.result = "confirmed"
            /\ After = << >>
            /\ discountRate[last.tab] = last.pre.discountRate
            /\ storage = Envelope
    /\ (last.op = "applyDiscountCode" /\ last.code = StringCode(SAVE10)) =>
            /\ last.result = "true"
            /\ After = Before
            /\ discountRate[last.tab] = 10
            /\ storage = Envelope

C26_Witness ==
    /\ ~view[last.tab].dom
    /\ last.op = "updateQuantity" /\ last.result # "throw"
    /\ Before = <<NewLineItem(ProductA, 1)>>
    /\ After = <<NewLineItem(ProductA, 2)>>
    /\ discountRate[last.tab] = 10
    /\ storage = Envelope

\* C27: after a successful addItem(p) exactly one line item is held under
\* the id of p, of string or number type; updateQuantity(p.id, q) with q > 0
\* sets the quantity of the item added for p, and removeItem(p.id) leaves no
\* item under the id of p.
C27_LookupsFindAddedItem ==
    /\ (last.op = "addItem" /\ last.result = "true") =>
            Cardinality(Holding(After, StringOf(last.id))) = 1
    /\ (last.op = "updateQuantity" /\ last.result # "throw" /\ last.quantity > 0
            /\ Holding(Before, StringOf(last.id)) # {}) =>
            \A i \in Holding(After, StringOf(last.id)) : After[i].quantity = last.quantity
    /\ (last.op = "removeItem" /\ last.result # "throw") =>
            Holding(After, StringOf(last.id)) = {}

\* C28: when the timer of a quantity input fires and the cart holds no item
\* under the id of the input, the updateQuantity it calls leaves the items,
\* the discount rate and storage as they were, and no item under that id.
C28_LateCommitOnAbsentItem ==
    (last.op = "updateQuantity" /\ last.input > 0 /\ Holding(Before, last.id) = {}) =>
        /\ CartUnchanged
        /\ Holding(After, last.id) = {}

C28_Witness ==
    /\ last.op = "updateQuantity" /\ last.input > 0
    /\ last.quantity = 2
    /\ Holding(Before, last.id) = {}
    /\ storage = Json(<< >>, <<0>>)
    /\ items[last.tab] = Arr(<< >>)

\* C29: a page with the cart elements never has more than one engine
\* constructed, and has exactly one once DOMContentLoaded has fired.
C29_OneEnginePerPageLoad ==
    \A t \in Tabs : view[t].dom =>
        /\ view[t].engines <= 1
        /\ view[t].dcl = "fired" => view[t].engines = 1

\* C30: with every line item of price >= 0, quantity >= 1 and discount in
\* 0..100 and the rate 0, 0.10 or 0.15, getTotals returns 0 <=
\* discountAmount <= subtotal, discountedSubtotal >= 0, tax >= 0 and total
\* >= discountedSubtotal; and whenever it returns a negative
\* discountedSubtotal or total, a line item is discounted by more than 100%
\* or the rate is above 1.
C30_TotalsWithinBounds ==
    (last.op = "getTotals" /\ last.result # "throw") =>
        LET T == last.totals
            rate == discountRate[last.tab]
            valid == /\ rate \in {0, 10, 15}
                     /\ \A i \in 1..Len(After) :
                            /\ After[i].price >= 0
                            /\ After[i].quantity >= 1
                            /\ After[i].discount \in 0..100
        IN  /\ valid =>
                    /\ 0 <= T.discountAmount /\ T.discountAmount <= T.subtotal
                    /\ T.discountedSubtotal >= 0
                    /\ T.tax >= 0
                    /\ T.total >= T.discountedSubtotal
            /\ (T.discountedSubtotal < 0 \/ T.total < 0) =>
                    \/ \E i \in 1..Len(After) : After[i].discount > 100
                    \/ rate > 100

====
